---- MODULE Spec2Model ----
(***************************************************************************)
(* Model of MB::TCP::Connection (src/src/TCP/connection.cpp and its        *)
(* header): MBAP framing by memory reinterpretation, transaction-id        *)
(* correlation, and the poll/recv receive path.  Each Connection lives on  *)
(* a host whose byte order is fixed at start-up.                           *)
(*   Spec      one Connection against a remote application that writes     *)
(*             frames of its own making, well-formed or not;               *)
(*   SpecLong  one Connection sending payloads of 256 bytes and more;      *)
(*   SpecPair  two Connections, client and server, on one stream;          *)
(*   SpecLife  Connections being constructed, moved and destroyed.         *)
(***************************************************************************)
EXTENDS Integers, Sequences, FiniteSets, TLC

VARIABLES
  bigEndian,   \* bigEndian[c]: byte order of the host running Connection c
  loopback,    \* TRUE: A and B are the two ends of one stream;
               \* FALSE: the other end is a remote application
  sockfd,      \* Connection::_sockfd
  messageID,   \* Connection::_messageID (uint16_t)
  timeout,     \* Connection::_timeout (ms)
  inbuf,       \* inbuf[c]: bytes that have arrived at c's socket, unread
  late,        \* late[c]: bytes written towards c that are still under way
  peerClosed,  \* peerClosed[c]: the other end has shut down its write side
  alive,       \* alive[c]: Connection c is constructed and not yet destroyed
  opened,      \* descriptors the process has created
  adopted,     \* descriptors handed to a Connection(int sockfd)
  closes,      \* closes[fd]: calls of ::close(fd) so far (2: more than one)
  last         \* outcome of the most recent operation

\* The descriptor table and the objects' lifetimes.
life == <<alive, opened, adopted, closes>>

vars == <<bigEndian, loopback, sockfd, messageID, timeout, inbuf, late,
          peerClosed, alive, opened, adopted, closes, last>>

(* ------------------------------ bounds -------------------------------- *)
MaxLen == 2         \* received and looped-back PDU payloads: 0..MaxLen bytes
LongLen == 256      \* long outbound payloads: LongLen and LongLen + 1 bytes
MaxFds == 3         \* descriptors the process creates: 3 .. MaxFds + 2

(* ------------------------- program constants -------------------------- *)
DefaultTCPTimeout == 500
RequestWindow == 60000
RecvBufSize == 1024
HeaderLen == 6
ClosedFd == -1

Conns == {"A", "B"}
Peer(c) == IF c = "A" THEN "B" ELSE "A"
Fd(c) == IF c = "A" THEN 3 ELSE 4
Fds == 3..(MaxFds + 2)

\* Values used for the bytes of a transaction id, hence ids 0, 5, 1280, 1285.
ByteVals == {0, 5}
Ids == {b0 * 256 + b1 : b0 \in ByteVals, b1 \in ByteVals}
\* PDU bytes: byte i of a payload is i, except that the second byte, the
\* function code, is 2 or 2 with the exception bit set (130).
PduByteAt(i) == IF i = 2 THEN {2, 130} ELSE {i}

RECURSIVE PayloadsOfLen(_)
PayloadsOfLen(n) ==
  IF n = 0 THEN {<<>>}
  ELSE {Append(s, x) : s \in PayloadsOfLen(n - 1), x \in PduByteAt(n)}

Payloads == UNION {PayloadsOfLen(n) : n \in 0..MaxLen}
LongPayloads == {[i \in 1..n |-> 1] : n \in LongLen..(LongLen + 1)}

Min(a, b) == IF a < b THEN a ELSE b

(* ---------------------- memory reinterpretation ----------------------- *)
\* The two bytes of a uint16_t as they lie in memory on the host; element 1
\* is reinterpret_cast<const uint8_t *>(&v)[0], element 2 is [1].
U16Mem(be, v) ==
  IF be THEN <<v \div 256, v % 256>> ELSE <<v % 256, v \div 256>>

\* The two uint16_t halves of a uint32_t as they lie in memory on the host;
\* element 1 is reinterpret_cast<uint16_t *>(&size)[0], element 2 is [1].
U32Halves(be, v) ==
  IF be THEN <<v \div 65536, v % 65536>> ELSE <<v % 65536, v \div 65536>>

\* *reinterpret_cast<uint16_t *>(&r[0]): the host's reading of two bytes.
ReadU16(be, b0, b1) ==
  IF be THEN b0 * 256 + b1 ELSE b1 * 256 + b0

\* The big-endian (network order) value of two wire bytes.
WireId(b0, b1) == b0 * 256 + b1

\* push_back of bytes [1] then [0] of _messageID.
IdBytes(be, id) == <<U16Mem(be, id)[2], U16Mem(be, id)[1]>>

\* uint32_t size = dat.size(); push_back((uint8_t) halves[1]), then halves[0].
\* (The payloads here are far shorter than 2^32 bytes, so size is n itself.)
SizeBytes(be, n) ==
  <<U32Halves(be, n)[2] % 256, U32Halves(be, n)[1] % 256>>

\* The frame sendRequest, sendResponse and sendException build.
BuildFrame(be, id, dat) ==
  IdBytes(be, id) \o <<0, 0>> \o SizeBytes(be, Len(dat)) \o dat


(* --------------------------- PDU codec -------------------------------- *)
\* MB::ModbusException::exist: the payload carries a function code with the
\* exception bit set.
ExceptionExist(r) == Len(r) >= 2 /\ r[2] >= 128

(* ------------------------- operation outcome -------------------------- *)
\* The record an operation on Connection c starts from.  Two fields follow
\* the caller through an exchange: pending, a request written on the
\* Connection is unanswered; after, the failure of the awaitResponse that
\* ended the exchange before this one.
Base(c, op) ==
  [conn |-> c, op |-> op, status |-> "ok", err |-> "none",
   frame |-> <<>>, sent |-> FALSE,
   rx |-> <<>>, rxId |-> -1, val |-> <<>>, codec |-> <<>>,
   pollRet |-> 1, size |-> -1, window |-> 0, avail |-> 0, eof |-> FALSE,
   after |-> "none", pending |-> FALSE, other |-> c, fd |-> ClosedFd]

(* ------------------------------ Init ---------------------------------- *)
\* Connection(int sockfd): A has adopted a connected socket.  B is a
\* default-constructed Connection that takes no part.
Init ==
  /\ bigEndian \in {[c \in Conns |-> IF c = "A" THEN b ELSE FALSE] : b \in BOOLEAN}
  /\ loopback = FALSE
  /\ sockfd = [c \in Conns |-> IF c = "A" THEN Fd(c) ELSE ClosedFd]
  /\ messageID = [c \in Conns |-> 0]
  /\ timeout = [c \in Conns |-> DefaultTCPTimeout]
  /\ inbuf = [c \in Conns |-> <<>>]
  /\ late = [c \in Conns |-> <<>>]
  /\ peerClosed = [c \in Conns |-> FALSE]
  /\ alive = [c \in Conns |-> TRUE]
  /\ opened = {Fd("A")}
  /\ adopted = {Fd("A")}
  /\ closes = [f \in Fds |-> 0]
  /\ last = Base("A", "none")

\* Both Connections have adopted the two ends of one connected stream.
InitPair ==
  /\ bigEndian \in [Conns -> BOOLEAN]
  /\ loopback = TRUE
  /\ sockfd = [c \in Conns |-> Fd(c)]
  /\ messageID = [c \in Conns |-> 0]
  /\ timeout = [c \in Conns |-> DefaultTCPTimeout]
  /\ inbuf = [c \in Conns |-> <<>>]
  /\ late = [c \in Conns |-> <<>>]
  /\ peerClosed = [c \in Conns |-> FALSE]
  /\ alive = [c \in Conns |-> TRUE]
  /\ opened = {Fd(c) : c \in Conns}
  /\ adopted = {Fd(c) : c \in Conns}
  /\ closes = [f \in Fds |-> 0]
  /\ last = Base("A", "none")

\* No Connection has been constructed yet.
InitLife ==
  /\ bigEndian = [c \in Conns |-> FALSE]
  /\ loopback = FALSE
  /\ sockfd = [c \in Conns |-> ClosedFd]
  /\ messageID = [c \in Conns |-> 0]
  /\ timeout = [c \in Conns |-> DefaultTCPTimeout]
  /\ inbuf = [c \in Conns |-> <<>>]
  /\ late = [c \in Conns |-> <<>>]
  /\ peerClosed = [c \in Conns |-> FALSE]
  /\ alive = [c \in Conns |-> FALSE]
  /\ opened = {}
  /\ adopted = {}
  /\ closes = [f \in Fds |-> 0]
  /\ last = Base("A", "none")

Running == last.status # "crash"

\* Nothing written towards c is unread or under way.
Quiet(c) == inbuf[c] = <<>> /\ late[c] = <<>>

(* --------------------------- setMessageId ----------------------------- *)
SetMessageId(c, id) ==
  /\ Running
  /\ alive[c]
  /\ Quiet(c)
  /\ messageID' = [messageID EXCEPT ![c] = id]
  /\ last' = Base(c, "setMessageId")
  /\ UNCHANGED <<bigEndian, loopback, sockfd, timeout, inbuf, late, peerClosed>>
  /\ UNCHANGED life

(* ------------------------------ sending ------------------------------- *)
\* ::send(_sockfd, rawReq.data(), rawReq.size(), 0), its return value
\* dropped: the bytes reach the other end when the write succeeds (ok).  In
\* loopback they arrive at Peer(c).  The exchange is half-duplex: a
\* Connection sends only once it has read what was written to it, and the
\* other end has read the frame before.
\* The awaitResponse called right before this sendRequest failed with ...
FailedBefore(c, op) ==
  IF /\ op = "sendRequest"
     /\ last.op = "awaitResponse"
     /\ last.conn = c
     /\ last.status = "throw"
  THEN last.err ELSE "none"

\* ... a Timeout while a request was unanswered.
TimedOutBefore(c, op) ==
  FailedBefore(c, op) = "Timeout" /\ last.pending

Wrote(c, ok) == ok /\ sockfd[c] # ClosedFd /\ ~peerClosed[Peer(c)]

SendFrame(c, op, dat, ok) ==
  LET rawReq == BuildFrame(bigEndian[c], messageID[c], dat) IN
  /\ Running
  /\ alive[c]
  /\ Quiet(c)
  /\ loopback => Quiet(Peer(c))
  /\ inbuf' = IF loopback /\ Wrote(c, ok)
              THEN [inbuf EXCEPT ![Peer(c)] = @ \o rawReq]
              ELSE inbuf
  /\ last' = [Base(c, op) EXCEPT !.frame = rawReq, !.sent = Wrote(c, ok),
                                 !.codec = <<<<"toRaw", dat>>>>,
                                 !.after = FailedBefore(c, op),
                                 !.pending = TimedOutBefore(c, op)]
  /\ UNCHANGED <<bigEndian, loopback, sockfd, messageID, timeout, late, peerClosed>>
  /\ UNCHANGED life

SendRequest(c, dat, ok) == SendFrame(c, "sendRequest", dat, ok)

SendResponse(c, dat, ok) == SendFrame(c, "sendResponse", dat, ok)

SendException(c, dat, ok) == SendFrame(c, "sendException", dat, ok)

(* ----------------------------- receiving ------------------------------ *)
\* A variant of PollErr in which every receive path throws the same failure.
PollErrUniform(op) == "Timeout"

\* The failure thrown when poll(...) <= 0.
PollErr(op) ==
  CASE op = "awaitRawMessage" -> "ConnectionClosed"
    [] op = "awaitRequest" -> "Timeout"
    [] op = "awaitResponse" -> "Timeout"

\* The timeout handed to poll, in ms.
PollWindow(c, op) ==
  IF op = "awaitResponse" THEN timeout[c] ELSE RequestWindow

\* poll reports POLLIN: bytes have arrived, or the end of the stream has.
Readable(c) == sockfd[c] # ClosedFd /\ (inbuf[c] # <<>> \/ peerClosed[c])

\* What poll (pr) and then recv (n) can return.  poll returns 1 when the
\* socket is readable, 0 when nothing arrives within the window, and -1 when
\* interrupted; recv returns -1 on error, 0 at the end of the stream, and
\* otherwise the count of bytes that have arrived, at most the buffer size.
RecvReturns(c, pr, n) ==
  \/ pr = -1 /\ n = -1
  \/ pr = 0 /\ ~Readable(c) /\ n = -1
  \/ /\ pr = 1
     /\ Readable(c)
     /\ \/ n = -1
        \/ n = 0 /\ inbuf[c] = <<>>
        \/ n > 0 /\ n = Min(RecvBufSize, Len(inbuf[c]))

\* A variant of RecvErr that reports a failed read as a closed peer.
RecvErrAllClosed(size) == "ConnectionClosed"

\* The failure thrown after recv: size == -1, else size == 0.
RecvErr(size) ==
  IF size = -1 THEN "ProtocolError" ELSE "ConnectionClosed"

\* poll, recv, the two throws after recv, and r.resize(size).
Received(c, op, pr, n) ==
  LET res == [Base(c, op) EXCEPT !.pollRet = pr, !.window = PollWindow(c, op),
                                 !.avail = Len(inbuf[c]), !.eof = peerClosed[c]]
  IN IF pr <= 0 THEN [res EXCEPT !.status = "throw", !.err = PollErr(op)]
     ELSE IF n <= 0
     THEN [res EXCEPT !.size = n, !.status = "throw", !.err = RecvErr(n)]
     ELSE [res EXCEPT !.size = n, !.rx = SubSeq(inbuf[c], 1, n)]

\* The stream after recv has taken n bytes.
Drained(c, pr, n) ==
  IF pr = 1 /\ n > 0
  THEN [inbuf EXCEPT ![c] = SubSeq(@, n + 1, Len(@))]
  ELSE inbuf

\* *reinterpret_cast<uint16_t *>(&r[0]).  A one-byte r has no r[1]: the read
\* runs past the vector and yields whatever byte g lies there.
HeaderId(be, r, g) ==
  ReadU16(be, r[1], IF Len(r) >= 2 THEN r[2] ELSE g)

\* r.erase(r.begin(), r.begin() + 6).  On fewer than 6 bytes the range runs
\* past end(): the behaviour is undefined (ub), a crash or a vector of
\* arbitrary content.
EraseUB == {<<"crash", <<>>>>} \cup {<<"ok", p>> : p \in {<<>>, <<1, 130>>}}
NoUB == <<"crash", <<>>>>

EraseHeader(r, ub) ==
  IF Len(r) >= HeaderLen THEN <<"ok", SubSeq(r, HeaderLen + 1, Len(r))>> ELSE ub

\* Only the inputs an operation reads are varied.
InputsUsed(pr, n, g, ub) ==
  /\ (pr = 1 /\ n = 1) \/ g = 0
  /\ (pr = 1 /\ n \in 1..(HeaderLen - 1)) \/ ub = NoUB

AwaitRawMessage(c, pr, n) ==
  LET got == Received(c, "awaitRawMessage", pr, n) IN
  /\ Running
  /\ alive[c]
  /\ RecvReturns(c, pr, n)
  /\ last' = IF got.status = "ok" THEN [got EXCEPT !.val = got.rx] ELSE got
  /\ inbuf' = Drained(c, pr, n)
  /\ UNCHANGED <<bigEndian, loopback, sockfd, messageID, timeout, late, peerClosed>>
  /\ UNCHANGED life

AwaitRequest(c, pr, n, g, ub) ==
  LET got == Received(c, "awaitRequest", pr, n)
      id == HeaderId(bigEndian[c], got.rx, g)
      er == EraseHeader(got.rx, ub)
  IN
  /\ Running
  /\ alive[c]
  /\ RecvReturns(c, pr, n)
  /\ InputsUsed(pr, n, g, ub)
  /\ inbuf' = Drained(c, pr, n)
  /\ IF got.status # "ok"
     THEN /\ last' = got
          /\ UNCHANGED messageID
     ELSE /\ messageID' = [messageID EXCEPT ![c] = id]
          /\ last' = IF er[1] = "crash"
                     THEN [got EXCEPT !.rxId = id, !.status = "crash"]
                     ELSE [got EXCEPT !.rxId = id, !.val = er[2],
                                      !.codec = <<<<"RequestFromRaw", er[2]>>>>]
  /\ UNCHANGED <<bigEndian, loopback, sockfd, timeout, late, peerClosed>>
  /\ UNCHANGED life

\* A variant of ResponseOutcome that decodes the response without asking
\* the exception detector first.
ResponseOutcomeUnchecked(res, r) ==
  [res EXCEPT !.val = r, !.codec = <<<<"ResponseFromRaw", r>>>>]

\* if (ModbusException::exist(r)) throw ModbusException(r);
\* return ModbusResponse::fromRaw(r);
ResponseOutcome(res, r) ==
  IF ExceptionExist(r)
  THEN [res EXCEPT !.status = "throw", !.err = "ProtocolException", !.val = r,
                   !.codec = <<<<"exist", r>>, <<"ExceptionFromRaw", r>>>>]
  ELSE [res EXCEPT !.val = r,
                   !.codec = <<<<"exist", r>>, <<"ResponseFromRaw", r>>>>]

\* What awaitResponse returns or throws.
ResponseResult(c, pr, n, g, ub) ==
  LET rcv == Received(c, "awaitResponse", pr, n)
      got == [rcv EXCEPT
                !.pending = last.op = "sendRequest" /\ last.conn = c /\ last.sent,
                !.after = IF last.op \in {"remoteReply", "lateReply"} /\ last.conn = c
                          THEN last.after ELSE "none"]
      id == HeaderId(bigEndian[c], got.rx, g)
      er == EraseHeader(got.rx, ub)
  IN IF got.status # "ok" THEN got
     ELSE IF id # messageID[c]
     THEN [got EXCEPT !.rxId = id, !.status = "throw",
                      !.err = "InvalidMessageID"]
     ELSE IF er[1] = "crash"
     THEN [got EXCEPT !.rxId = id, !.status = "crash"]
     ELSE ResponseOutcome([got EXCEPT !.rxId = id], er[2])

\* A variant of AwaitResponse that closes the socket when it throws.
AwaitResponseClosing(c, pr, n, g, ub) ==
  /\ Running
  /\ alive[c]
  /\ RecvReturns(c, pr, n)
  /\ InputsUsed(pr, n, g, ub)
  /\ inbuf' = Drained(c, pr, n)
  /\ last' = ResponseResult(c, pr, n, g, ub)
  /\ sockfd' = IF last'.status = "throw"
               THEN [sockfd EXCEPT ![c] = ClosedFd] ELSE sockfd
  /\ UNCHANGED <<bigEndian, loopback, messageID, timeout, late, peerClosed>>
  /\ UNCHANGED life

AwaitResponse(c, pr, n, g, ub) ==
  /\ Running
  /\ alive[c]
  /\ RecvReturns(c, pr, n)
  /\ InputsUsed(pr, n, g, ub)
  /\ inbuf' = Drained(c, pr, n)
  /\ last' = ResponseResult(c, pr, n, g, ub)
  /\ UNCHANGED <<bigEndian, loopback, sockfd, messageID, timeout, late, peerClosed>>
  /\ UNCHANGED life

(* ------------------------- the remote end ----------------------------- *)
\* A frame as a remote application may write it: any id bytes, protocol-id
\* bytes and declared length, well-formed or not.
RawFrame(b0, b1, proto, n, p) ==
  <<b0, b1>> \o proto \o <<n \div 256, n % 256>> \o p

WellFormed ==
  {RawFrame(b0, b1, <<0, 0>>, Len(p), p) :
     b0 \in ByteVals, b1 \in ByteVals, p \in Payloads}

\* A nonzero protocol id, or a declared length one more or one less than the
\* payload has.
Malformed ==
  {RawFrame(b, b, h[1], Len(p) + h[2], p) :
     b \in ByteVals, p \in {<<1, 2>>},
     h \in {<<<<0, 1>>, 0>>, <<<<0, 0>>, 1>>, <<<<0, 0>>, -1>>}}

RawFrames == WellFormed \cup Malformed

\* A frame arrives whole, or a part of its header (the transaction id and
\* the protocol id) arrives ahead of the rest.
FirstSegments == {4}

\* Frame f is a well-formed frame that repeats the transaction-id bytes of
\* the request Connection c has just written.
Echoes(c, f) ==
  /\ last.op = "sendRequest"
  /\ last.conn = c
  /\ last.sent
  /\ SubSeq(f, 1, 2) = SubSeq(last.frame, 1, 2)
  /\ SubSeq(f, 3, 4) = <<0, 0>>
  /\ WireId(f[5], f[6]) = Len(f) - HeaderLen

\* The remote application writes frame f; its first k bytes arrive at once,
\* the rest later.  When an earlier request on c is still unanswered, the
\* first frame to come back with its id is the late reply to that request.
RemoteWrite(c, f, k) ==
  /\ Running
  /\ ~loopback
  /\ sockfd[c] # ClosedFd
  /\ ~peerClosed[c]
  /\ Quiet(c)
  /\ k \in 1..Len(f)
  /\ inbuf' = [inbuf EXCEPT ![c] = SubSeq(f, 1, k)]
  /\ late' = [late EXCEPT ![c] = SubSeq(f, k + 1, Len(f))]
  /\ last' = [Base(c, IF ~Echoes(c, f) THEN "remoteWrite"
                       ELSE IF last.pending THEN "lateReply" ELSE "remoteReply")
                EXCEPT !.after = IF Echoes(c, f) THEN last.after ELSE "none"]
  /\ UNCHANGED <<bigEndian, loopback, sockfd, messageID, timeout, peerClosed>>
  /\ UNCHANGED life

\* The remote application answers the request this Connection has just
\* written: it repeats the request's two transaction-id bytes and frames
\* payload p.
RemoteReply(c, p, k) ==
  /\ last.op = "sendRequest"
  /\ last.conn = c
  /\ last.sent
  /\ RemoteWrite(c, RawFrame(last.frame[1], last.frame[2], <<0, 0>>, Len(p), p), k)

\* The bytes under way arrive.
Arrive(c) ==
  /\ Running
  /\ late[c] # <<>>
  /\ inbuf' = [inbuf EXCEPT ![c] = @ \o late[c]]
  /\ late' = [late EXCEPT ![c] = <<>>]
  /\ last' = Base(c, "arrive")
  /\ UNCHANGED <<bigEndian, loopback, sockfd, messageID, timeout, peerClosed>>
  /\ UNCHANGED life

RemoteClose(c) ==
  /\ Running
  /\ ~loopback
  /\ sockfd[c] # ClosedFd
  /\ ~peerClosed[c]
  /\ Quiet(c)
  /\ peerClosed' = [peerClosed EXCEPT ![c] = TRUE]
  /\ last' = Base(c, "remoteClose")
  /\ UNCHANGED <<bigEndian, loopback, sockfd, messageID, timeout, inbuf, late>>
  /\ UNCHANGED life

(* ------------------- construction, move, destruction ------------------ *)
\* The lowest descriptor the process has not created yet.
FreshFd == CHOOSE f \in Fds \ opened : \A g \in Fds \ opened : f <= g

\* closeSockfd: if (_sockfd >= 0) ::close(_sockfd).
CloseCalls(fd) ==
  IF fd >= 0 THEN [closes EXCEPT ![fd] = IF @ < 2 THEN @ + 1 ELSE @] ELSE closes

\* The descriptor closeSockfd hands to ::close, -1 when it closes none.
ClosedBy(fd) == IF fd >= 0 THEN fd ELSE ClosedFd

\* A variant of ClosesOwn in which an overwritten handle is never closed.
ClosesOwnNever(c, other) == FALSE

\* if (_sockfd != -1 && _sockfd != other._sockfd): the handle about to be
\* overwritten is closed first.
ClosesOwn(c, other) == sockfd[c] # ClosedFd /\ sockfd[c] # sockfd[other]

\* A variant of TakeFrom that leaves the source its descriptor.
TakeFromKeeping(c, other) == [sockfd EXCEPT ![c] = sockfd[other]]

\* _sockfd = other._sockfd; ...; other._sockfd = -1.
TakeFrom(c, other) ==
  [sockfd EXCEPT ![c] = sockfd[other], ![other] = ClosedFd]

\* Connection(): the default constructor.
Construct(c) ==
  /\ ~alive[c]
  /\ alive' = [alive EXCEPT ![c] = TRUE]
  /\ sockfd' = [sockfd EXCEPT ![c] = ClosedFd]
  /\ messageID' = [messageID EXCEPT ![c] = 0]
  /\ timeout' = [timeout EXCEPT ![c] = DefaultTCPTimeout]
  /\ last' = Base(c, "construct")
  /\ UNCHANGED <<bigEndian, loopback, inbuf, late, peerClosed, opened, adopted, closes>>

\* Connection(int sockfd) on a socket the caller has just created; no other
\* Connection is given the same descriptor.
Adopt(c) ==
  /\ ~alive[c]
  /\ opened # Fds
  /\ opened' = opened \cup {FreshFd}
  /\ adopted' = adopted \cup {FreshFd}
  /\ alive' = [alive EXCEPT ![c] = TRUE]
  /\ sockfd' = [sockfd EXCEPT ![c] = FreshFd]
  /\ messageID' = [messageID EXCEPT ![c] = 0]
  /\ timeout' = [timeout EXCEPT ![c] = DefaultTCPTimeout]
  /\ last' = [Base(c, "adopt") EXCEPT !.fd = FreshFd]
  /\ UNCHANGED <<bigEndian, loopback, inbuf, late, peerClosed, closes>>

\* Connection::with(addr, port): socket(), connect(), Connection((int)sock).
\* created: socket() returned a descriptor; connected: connect() succeeded.
\* Either failure throws std::runtime_error and constructs no Connection.
With(c, created, connected) ==
  /\ ~alive[c]
  /\ created => opened # Fds
  /\ opened' = IF created THEN opened \cup {FreshFd} ELSE opened
  /\ IF created /\ connected
     THEN /\ adopted' = adopted \cup {FreshFd}
          /\ alive' = [alive EXCEPT ![c] = TRUE]
          /\ sockfd' = [sockfd EXCEPT ![c] = FreshFd]
          /\ messageID' = [messageID EXCEPT ![c] = 0]
          /\ timeout' = [timeout EXCEPT ![c] = DefaultTCPTimeout]
          /\ last' = [Base(c, "with") EXCEPT !.fd = FreshFd]
     ELSE /\ last' = [Base(c, "with") EXCEPT
                        !.status = "throw", !.err = "runtime_error",
                        !.fd = IF created THEN FreshFd ELSE ClosedFd]
          /\ UNCHANGED <<adopted, alive, sockfd, messageID, timeout>>
  /\ UNCHANGED <<bigEndian, loopback, inbuf, late, peerClosed, closes>>

\* Connection(Connection &&moved).  The members of the new object start from
\* their default initializers (-1, 0, DefaultTCPTimeout), so the guard of
\* the constructor's closeSockfd() is false.
MoveConstruct(c, moved) ==
  /\ ~alive[c]
  /\ alive[moved]
  /\ c # moved
  /\ alive' = [alive EXCEPT ![c] = TRUE]
  /\ sockfd' = TakeFrom(c, moved)
  /\ messageID' = [messageID EXCEPT ![c] = messageID[moved]]
  /\ timeout' = [timeout EXCEPT ![c] = DefaultTCPTimeout]
  /\ last' = [Base(c, "moveConstruct") EXCEPT !.other = moved]
  /\ UNCHANGED <<bigEndian, loopback, inbuf, late, peerClosed, opened, adopted, closes>>

\* operator=(Connection &&other); other may be *this.
MoveAssign(c, other) ==
  /\ alive[c]
  /\ alive[other]
  /\ last' = [Base(c, "moveAssign") EXCEPT
                !.other = other,
                !.fd = IF c # other /\ ClosesOwn(c, other)
                       THEN ClosedBy(sockfd[c]) ELSE ClosedFd]
  /\ IF c = other
     THEN UNCHANGED <<sockfd, messageID, closes>>
     ELSE /\ closes' = IF ClosesOwn(c, other) THEN CloseCalls(sockfd[c]) ELSE closes
          /\ sockfd' = TakeFrom(c, other)
          /\ messageID' = [messageID EXCEPT ![c] = messageID[other]]
  /\ UNCHANGED <<bigEndian, loopback, timeout, inbuf, late, peerClosed, alive, opened, adopted>>

\* closeSockfd().
CloseSockfd(c) ==
  /\ alive[c]
  /\ closes' = CloseCalls(sockfd[c])
  /\ sockfd' = [sockfd EXCEPT ![c] = ClosedFd]
  /\ last' = [Base(c, "closeSockfd") EXCEPT !.fd = ClosedBy(sockfd[c])]
  /\ UNCHANGED <<bigEndian, loopback, messageID, timeout, inbuf, late, peerClosed, alive, opened, adopted>>

\* ~Connection().
Destroy(c) ==
  /\ alive[c]
  /\ closes' = CloseCalls(sockfd[c])
  /\ sockfd' = [sockfd EXCEPT ![c] = ClosedFd]
  /\ alive' = [alive EXCEPT ![c] = FALSE]
  /\ last' = [Base(c, "destroy") EXCEPT !.fd = ClosedBy(sockfd[c])]
  /\ UNCHANGED <<bigEndian, loopback, messageID, timeout, inbuf, late, peerClosed, opened, adopted>>

(* --------------------------- specifications --------------------------- *)
PollRets == {-1, 0, 1}

\* One Connection against a remote application.
Next ==
  \/ \E id \in Ids : SetMessageId("A", id)
  \/ \E dat \in Payloads, ok \in BOOLEAN : SendRequest("A", dat, ok)
  \/ \E dat \in Payloads, ok \in BOOLEAN : SendResponse("A", dat, ok)
  \/ \E dat \in Payloads, ok \in BOOLEAN : SendException("A", dat, ok)
  \/ \E pr \in PollRets, n \in -1..Len(inbuf["A"]) : AwaitRawMessage("A", pr, n)
  \/ \E pr \in PollRets, n \in -1..Len(inbuf["A"]), g \in ByteVals, ub \in EraseUB :
        AwaitRequest("A", pr, n, g, ub)
  \/ \E pr \in PollRets, n \in -1..Len(inbuf["A"]), g \in ByteVals, ub \in EraseUB :
        AwaitResponse("A", pr, n, g, ub)
  \/ \E f \in RawFrames : \E k \in FirstSegments \cup {Len(f)} : RemoteWrite("A", f, k)
  \/ \E p \in Payloads : \E k \in FirstSegments \cup {HeaderLen + Len(p)} :
        RemoteReply("A", p, k)
  \/ Arrive("A")
  \/ RemoteClose("A")

Spec == Init /\ [][Next]_vars

\* One Connection sending long payloads.
NextLong ==
  \/ \E id \in Ids : SetMessageId("A", id)
  \/ \E dat \in LongPayloads, ok \in BOOLEAN : SendRequest("A", dat, ok)
  \/ \E dat \in LongPayloads, ok \in BOOLEAN : SendResponse("A", dat, ok)
  \/ \E dat \in LongPayloads, ok \in BOOLEAN : SendException("A", dat, ok)

SpecLong == Init /\ [][NextLong]_vars

\* Two Connections, the two ends of one stream: A is the client, B the server.
NextPair ==
  \/ \E id \in Ids : SetMessageId("A", id)
  \/ \E dat \in Payloads, ok \in BOOLEAN : SendRequest("A", dat, ok)
  \/ \E pr \in PollRets, n \in -1..Len(inbuf["B"]), g \in ByteVals, ub \in EraseUB :
        AwaitRequest("B", pr, n, g, ub)
  \/ \E dat \in Payloads, ok \in BOOLEAN : SendResponse("B", dat, ok)
  \/ \E dat \in Payloads, ok \in BOOLEAN : SendException("B", dat, ok)
  \/ \E pr \in PollRets, n \in -1..Len(inbuf["A"]), g \in ByteVals, ub \in EraseUB :
        AwaitResponse("A", pr, n, g, ub)

SpecPair == InitPair /\ [][NextPair]_vars

\* Connections constructed, moved, assigned and destroyed.
NextLife ==
  \/ \E c \in Conns : Construct(c)
  \/ \E c \in Conns : Adopt(c)
  \/ \E c \in Conns, created \in BOOLEAN, connected \in BOOLEAN :
        With(c, created, connected)
  \/ \E c \in Conns, moved \in Conns : MoveConstruct(c, moved)
  \/ \E c \in Conns, other \in Conns : MoveAssign(c, other)
  \/ \E c \in Conns : CloseSockfd(c)
  \/ \E c \in Conns : Destroy(c)
  \/ \E c \in Conns, id \in Ids : SetMessageId(c, id)

SpecLife == InitLife /\ [][NextLife]_vars

(* ============================== claims =============================== *)
Sends == {"sendRequest", "sendResponse", "sendException"}
Awaits == {"awaitRawMessage", "awaitRequest", "awaitResponse"}

\* The bytes after the 6-byte header of a received buffer.
After(r) == SubSeq(r, HeaderLen + 1, Len(r))

Called(fn) == \E i \in 1..Len(last.codec) : last.codec[i][1] = fn

\* C1: whenever awaitResponse receives a frame whose big-endian wire
\* transaction id differs from the stored (last sent) id, it fails with
\* InvalidMessageID and the PDU codec is not invoked.
C1_Correlation ==
  (/\ last.op = "awaitResponse"
   /\ Len(last.rx) >= HeaderLen
   /\ WireId(last.rx[1], last.rx[2]) # messageID[last.conn])
  => (/\ last.status = "throw"
      /\ last.err = "InvalidMessageID"
      /\ last.codec = <<>>)

\* C2: when the remote end answers the request just sent with a frame that
\* repeats the request's two transaction-id bytes and carries a non-exception
\* payload P, and awaitResponse reads that frame whole, awaitResponse
\* succeeds and returns the response decoded from exactly P.
C2_EndToEnd ==
  [][(/\ last.op = "remoteReply"
      /\ late[last.conn] = <<>>
      /\ ~ExceptionExist(After(inbuf[last.conn]))
      /\ last'.op = "awaitResponse"
      /\ last'.conn = last.conn
      /\ last'.rx = inbuf[last.conn])
     => (/\ last'.status = "ok"
         /\ last'.val = After(inbuf[last.conn])
         /\ last'.codec[Len(last'.codec)] =
              <<"ResponseFromRaw", After(inbuf[last.conn])>>)]_vars

\* C3: of two consecutive sendRequest calls on one Connection, the second
\* places in its header the id of the first plus 1 modulo 65536.
C3_NextId ==
  [][(/\ last.op = "sendRequest"
      /\ last'.op = "sendRequest"
      /\ last'.conn = last.conn)
     => WireId(last'.frame[1], last'.frame[2]) =
          (WireId(last.frame[1], last.frame[2]) + 1) % 65536]_vars

\* C4: the frame sendResponse or sendException writes right after
\* awaitRequest has received a frame starts with that frame's two
\* transaction-id bytes, and the stored id is left unchanged.
C4_Echo ==
  [][(/\ last.op = "awaitRequest"
      /\ last.status = "ok"
      /\ Len(last.rx) >= HeaderLen
      /\ last'.op \in {"sendResponse", "sendException"}
      /\ last'.conn = last.conn)
     => (/\ SubSeq(last'.frame, 1, 2) = SubSeq(last.rx, 1, 2)
         /\ messageID' = messageID)]_vars

\* C5: on either host, the frame a send operation builds for stored id T and
\* payload P is T div 256, T mod 256, 0, 0, two length bytes, then P.
C5_WireEncoding ==
  last.op \in Sends
  => LET T == messageID[last.conn]
         P == last.codec[1][2]
     IN /\ Len(last.frame) = HeaderLen + Len(P)
        /\ last.frame[1] = T \div 256
        /\ last.frame[2] = T % 256
        /\ last.frame[3] = 0
        /\ last.frame[4] = 0
        /\ After(last.frame) = P

\* C6: header bytes 4..5 of the frame a send operation builds are the
\* 16-bit big-endian byte count of the payload.
C6_LengthField ==
  last.op \in Sends
  => LET n == Len(last.codec[1][2])
     IN /\ last.frame[5] = n \div 256
        /\ last.frame[6] = n % 256

\* C7: when the frame sendRequest built with stored id T and payload P is
\* received whole by awaitRequest on the other Connection, the receiver's
\* stored id is T and the request decoder is handed P.
C7_RoundTrip ==
  [][(/\ last.op = "sendRequest"
      /\ last.conn = "A"
      /\ last.sent
      /\ last'.op = "awaitRequest"
      /\ last'.conn = "B"
      /\ last'.rx = last.frame)
     => (/\ messageID'["B"] = messageID["A"]
         /\ last'.codec = <<<<"RequestFromRaw", last.codec[1][2]>>>>)]_vars

\* C8: when awaitRequest or awaitResponse receives a frame whose protocol-id
\* bytes are not both zero, or whose declared length differs from the count
\* of bytes after the header, it fails with ProtocolError and the PDU codec
\* is not invoked.
C8_HeaderValidation ==
  (/\ last.op \in {"awaitRequest", "awaitResponse"}
   /\ Len(last.rx) >= HeaderLen
   /\ \/ last.rx[3] # 0
      \/ last.rx[4] # 0
      \/ WireId(last.rx[5], last.rx[6]) # Len(last.rx) - HeaderLen)
  => (/\ last.status = "throw"
      /\ last.err = "ProtocolError"
      /\ last.codec = <<>>)

\* C9: whenever awaitResponse receives a frame whose payload the exception
\* detector recognises, the response decoder is not invoked and no Response is
\* returned; and when the frame's id passed the correlation check, the
\* operation fails with the protocol exception decoded from that payload.
C9_ExceptionPrecedence ==
  (/\ last.op = "awaitResponse"
   /\ Len(last.rx) >= HeaderLen
   /\ ExceptionExist(After(last.rx)))
  => (/\ ~Called("ResponseFromRaw")
      /\ last.status = "throw"
      /\ last.rxId = messageID[last.conn]
         => (/\ last.err = "ProtocolException"
             /\ last.val = After(last.rx)
             /\ last.codec = <<<<"exist", After(last.rx)>>,
                               <<"ExceptionFromRaw", After(last.rx)>>>>))

C9_Witness ==
  /\ last.op = "awaitResponse"
  /\ Len(last.rx) >= HeaderLen
  /\ ExceptionExist(After(last.rx))
  /\ last.err = "ProtocolException"
  /\ messageID[last.conn] # 0

\* C10: a receive operation that finds nothing sent by the other end ends
\* with a failure: awaitResponse with Timeout after the Connection's timeout
\* of 500 ms, awaitRequest with Timeout after 60 s, awaitRawMessage with
\* ConnectionClosed after 60 s; and whenever nothing is readable each of the
\* three can so end.
C10_TimeoutFlavours ==
  /\ (last.op \in Awaits /\ last.avail = 0 /\ ~last.eof)
     => (/\ last.status = "throw"
         /\ last.pollRet <= 0
         /\ last.op = "awaitResponse"
            => (/\ last.err = "Timeout"
                /\ last.window = timeout[last.conn]
                /\ last.window = 500)
         /\ last.op = "awaitRequest"
            => last.err = "Timeout" /\ last.window = 60000
         /\ last.op = "awaitRawMessage"
            => last.err = "ConnectionClosed" /\ last.window = 60000)
  /\ (Running /\ ~Readable("A"))
     => (/\ ENABLED AwaitResponse("A", 0, -1, 0, NoUB)
         /\ ENABLED AwaitRequest("A", 0, -1, 0, NoUB)
         /\ ENABLED AwaitRawMessage("A", 0, -1))

C10_Witness ==
  /\ last.op = "awaitResponse"
  /\ last.avail = 0
  /\ ~last.eof
  /\ last.pollRet = 0
  /\ last.err = "Timeout"
  /\ last.window = 500

\* C11: in awaitRawMessage, awaitRequest and awaitResponse, when the socket
\* is readable and the read returns zero bytes the operation fails with
\* ConnectionClosed (not Timeout, not ProtocolError), and when the read
\* itself fails it fails with ProtocolError; a peer that has closed with
\* nothing unread lets each of the three read zero bytes.
C11_ClosedPeer ==
  /\ (last.op \in Awaits /\ last.pollRet = 1 /\ last.size = 0)
     => last.status = "throw" /\ last.err = "ConnectionClosed"
  /\ (last.op \in Awaits /\ last.pollRet = 1 /\ last.size = -1)
     => last.status = "throw" /\ last.err = "ProtocolError"
  /\ (Running /\ peerClosed["A"] /\ inbuf["A"] = <<>>)
     => (/\ ENABLED AwaitResponse("A", 1, 0, 0, NoUB)
         /\ ENABLED AwaitRequest("A", 1, 0, 0, NoUB)
         /\ ENABLED AwaitRawMessage("A", 1, 0))

C11_Witness ==
  /\ last.op = "awaitResponse"
  /\ last.eof
  /\ last.pollRet = 1
  /\ last.size = 0
  /\ last.err = "ConnectionClosed"

\* C12: when awaitResponse fails (Timeout, InvalidMessageID,
\* ProtocolException, ProtocolError or ConnectionClosed) the socket handle and
\* the stored transaction id are what they were before the call, so that a
\* later sendRequest/awaitResponse exchange on the Connection can succeed.
C12_Reusable ==
  [][(last'.op = "awaitResponse" /\ last'.status = "throw")
     => (/\ sockfd' = sockfd
         /\ messageID' = messageID
         /\ sockfd'[last'.conn] = Fd(last'.conn))]_vars

\* An exchange that follows a failed awaitResponse has succeeded.
C12_Witness ==
  /\ last.op = "awaitResponse"
  /\ last.status = "ok"
  /\ last.after \in {"Timeout", "InvalidMessageID", "ProtocolException"}

\* C13: whenever the socket write of sendRequest fails, or the handle is the
\* closed sentinel -1, sendRequest fails with IoError; it does not return
\* the frame bytes as if they had been sent.
C13_WriteFailure ==
  (last.op = "sendRequest" /\ ~last.sent)
  => (/\ last.status = "throw"
      /\ last.err = "IoError")

\* The descriptors that are open: created and not closed.
Open == {f \in opened : closes[f] = 0}

Moves == {"moveConstruct", "moveAssign"}

\* No open descriptor is held by two Connections.
SoleOwner ==
  \A c \in Conns, d \in Conns :
    (alive[c] /\ alive[d] /\ c # d /\ sockfd[c] \in Open) => sockfd[c] # sockfd[d]

\* C14: after Connection B is move-constructed or move-assigned from another
\* Connection A, A holds -1 and B holds the descriptor and the stored id A
\* had; destroying A right after closes no socket; and in every state reached
\* no open descriptor is held by two Connections.
C14_MoveSemantics ==
  [][/\ SoleOwner'
     /\ (last'.op \in Moves /\ last'.other # last'.conn)
        => (/\ sockfd'[last'.other] = ClosedFd
            /\ sockfd'[last'.conn] = sockfd[last'.other]
            /\ messageID'[last'.conn] = messageID[last'.other])
     /\ (/\ last.op \in Moves
         /\ last.other # last.conn
         /\ last'.op = "destroy"
         /\ last'.conn = last.other)
        => closes' = closes]_vars

\* A Connection has taken an open descriptor and a nonzero id from another.
C14_Witness ==
  /\ last.op \in Moves
  /\ last.other # last.conn
  /\ sockfd[last.conn] \in Open
  /\ sockfd[last.other] = ClosedFd
  /\ messageID[last.conn] # 0

\* The Connections that hold descriptor f.
Holders(f) == {c \in Conns : alive[c] /\ sockfd[c] = f}

\* C15: over any sequence of adopt, move-construct, move-assign (self-
\* assignment included), close and destroy, an adopted descriptor is open
\* while exactly one Connection holds it and has been closed exactly once
\* when none does; it is closed only by the destruction of its owner, by a
\* move-assignment that overwrites its owner's handle, or by a close call on
\* its owner; and a close call repeated on a Connection closes nothing more.
C15_CloseDiscipline ==
  [][/\ \A f \in adopted' :
          \/ closes'[f] = 0 /\ Cardinality(Holders(f)') = 1
          \/ closes'[f] = 1 /\ Holders(f)' = {}
     /\ closes' # closes
        => (/\ last'.op \in {"destroy", "moveAssign", "closeSockfd"}
            /\ last'.fd = sockfd[last'.conn]
            /\ last'.fd \in adopted
            /\ closes' = [closes EXCEPT ![last'.fd] = 1])
     /\ (/\ last.op = "closeSockfd"
         /\ last'.op \in {"closeSockfd", "destroy"}
         /\ last'.conn = last.conn)
        => closes' = closes]_vars

\* A move-assignment has overwritten, and so closed, the descriptor its
\* target owned, and the target now owns another open descriptor.
C15_Witness ==
  /\ last.op = "moveAssign"
  /\ last.fd \in adopted
  /\ closes[last.fd] = 1
  /\ sockfd[last.conn] \in Open

RemoteWrites == {"remoteWrite", "remoteReply", "lateReply"}

\* C16: when one well-formed frame reaches the socket in two parts, the
\* first already there and the rest still under way, awaitRequest and
\* awaitResponse read on until the whole frame (the 6 header bytes and the
\* declared count of payload bytes) has been received, and the PDU codec,
\* when invoked, is handed the complete payload.
C16_Reassembly ==
  [][(/\ last.op \in RemoteWrites
      /\ late[last.conn] # <<>>
      /\ (inbuf[last.conn] \o late[last.conn]) \in WellFormed
      /\ last'.op \in {"awaitRequest", "awaitResponse"}
      /\ last'.conn = last.conn
      /\ last'.size > 0)
     => (/\ last'.rx = inbuf[last.conn] \o late[last.conn]
         /\ last'.status # "crash"
         /\ last'.op = "awaitRequest"
            => last'.codec = <<<<"RequestFromRaw",
                                After(inbuf[last.conn] \o late[last.conn])>>>>
         /\ last'.codec # <<>>
            => last'.codec[1][2] = After(inbuf[last.conn] \o late[last.conn]))]_vars

\* C17: when awaitResponse for a request has failed with Timeout, the caller
\* has sent a new request with sendRequest, and the late reply to the first
\* request (repeating its transaction id) arrives first, the awaitResponse
\* for the new request does not return that reply: it fails with
\* InvalidMessageID.
C17_NoStaleReply ==
  [][(/\ last.op = "lateReply"
      /\ late[last.conn] = <<>>
      /\ last'.op = "awaitResponse"
      /\ last'.conn = last.conn
      /\ last'.rx = inbuf[last.conn])
     => (/\ last'.status = "throw"
         /\ last'.err = "InvalidMessageID")]_vars

\* C18: when the read of awaitRequest or awaitResponse returns between 1 and
\* 5 bytes, the operation does not read the transaction id past the bytes
\* received and does not erase a header from the short buffer: it neither
\* crashes nor goes on to the PDU codec with what such an erase leaves.
C18_ShortRead ==
  (/\ last.op \in {"awaitRequest", "awaitResponse"}
   /\ last.size \in 1..(HeaderLen - 1))
  => (/\ Len(last.rx) >= 2 \/ last.rxId = -1
      /\ last.status # "crash"
      /\ last.codec = <<>>)

\* C19: Connection::with leaks no descriptor: when it returns, the
\* Connection returned owns the open socket it created; when it throws, the
\* socket it created, if any, is closed.
C19_NoLeak ==
  last.op = "with"
  => IF last.status = "ok"
     THEN /\ last.fd \in Open
          /\ alive[last.conn]
          /\ sockfd[last.conn] = last.fd
     ELSE last.fd = ClosedFd \/ last.fd \notin Open

====
